---- MODULE Spec2Model ----
(***************************************************************************)
(* A model of Synthetic_Data_Generator.py: the correlated record           *)
(* generators, the record assembler, the two append writers and the batch  *)
(* loop with its keyboard interrupt.                                       *)
(*                                                                         *)
(* Numbers.  Real-valued quantities are fixed point:                       *)
(*   - sampled values (gauss, normal, lognormal) are in hundredths;        *)
(*   - BMI and HbA1c, once rounded to one decimal, are in tenths;          *)
(*   - a probability is in ten-thousandths (0.01 is 100, 0.9 is 9000);     *)
(*   - a uniform draw random.random() is u/100 with u in 0..99;            *)
(*   - a standard normal deviate is z/10 with z an integer.                *)
(* Instants are seconds; a formatted date is the day number of its         *)
(* instant, which orders and subtracts as the YYYY-MM-DD text does.        *)
(***************************************************************************)
EXTENDS Integers, Sequences, FiniteSets, TLC

VARIABLES
    np,             \* whether "import numpy" succeeded (line 36-39)
    ret,            \* the last direct call of a function: [fn, args, val]
    csv,            \* the CSV file: [exists, lines]
    ndjson,         \* the NDJSON file: [exists, lines]
    calls,          \* append_to_csv calls made so far, as the batches passed
    pc,             \* position of the script in main / run_loop
    seed,           \* args.seed: <<>> for None, <<n>> for the integer n
    n_per_interval, \* args.n_per_interval
    rng,            \* state of the random module's generator
    nprng,          \* state of numpy's generator
    clock,          \* the wall clock, in seconds
    batch,          \* run_loop's batch (the list being built, then written)
    wi,             \* rows of the batch the writer in progress has written
    write_header,   \* append_to_csv's local
    total_written,  \* run_loop's counter
    reported,       \* totals printed so far (progress lines, final message)
    hist,           \* batches whose generation completed, in order
    slept,          \* sleep slices taken since the last batch
    runs            \* two independent runs of the script with one seed

vars == <<np, ret, csv, ndjson, calls, pc, seed, n_per_interval, rng, nprng,
          clock, batch, wi, write_header, total_written, reported, hist,
          slept, runs>>

-----------------------------------------------------------------------------
(* Arithmetic helpers standing for Python built-ins.                       *)

Max(a, b) == IF a >= b THEN a ELSE b

Min(a, b) == IF a <= b THEN a ELSE b

Abs(a) == IF a >= 0 THEN a ELSE -a

\* int(x) for x = a/b, b > 0: truncation toward zero.
IntTrunc(a, b) == IF a >= 0 THEN a \div b ELSE -((-a) \div b)

\* round(x) / round(x, 1) for x = a/b, b > 0: nearest, ties to even.
RoundHalfEven(a, b) ==
    LET q == a \div b
        r == a - q * b
    IN  IF 2 * r < b THEN q
        ELSE IF 2 * r > b THEN q + 1
        ELSE IF q % 2 = 0 THEN q ELSE q + 1

\* np.clip(x, lo, hi) and the max(lo, min(x, hi)) idiom.
Clip(x, lo, hi) == Max(lo, Min(x, hi))

\* dict.get(key, default)
DictGet(d, k, default) == IF k \in DOMAIN d THEN d[k] ELSE default

Range(s) == {s[i] : i \in DOMAIN s}

RECURSIVE Flatten(_)
Flatten(ss) == IF ss = <<>> THEN <<>> ELSE Head(ss) \o Flatten(Tail(ss))

-----------------------------------------------------------------------------
(* Static tables.                                                          *)

COLUMNS ==
    <<"PatientID", "Age", "Gender", "AdmissionDate", "DischargeDate",
      "Diagnosis", "LengthOfStay", "PriorAdmissions", "Medications",
      "ReadmittedWithin30Days", "BMI", "SmokingStatus", "AlcoholUse",
      "BloodPressure", "CholesterolLevel", "HbA1c",
      "FollowUpAppointmentScheduled", "InsuranceType", "RecordGeneratedAt">>

\* readmit_base is in hundredths.
DIAGNOSES ==
    ("Hypertension" :> [base_los |-> 3, los_sd |-> 2, readmit_base |-> 5]) @@
    ("Heart Failure" :> [base_los |-> 6, los_sd |-> 4, readmit_base |-> 18]) @@
    ("Pneumonia" :> [base_los |-> 5, los_sd |-> 3, readmit_base |-> 12]) @@
    ("Stroke" :> [base_los |-> 8, los_sd |-> 5, readmit_base |-> 20]) @@
    ("Diabetes" :> [base_los |-> 4, los_sd |-> 3, readmit_base |-> 10]) @@
    ("COPD" :> [base_los |-> 5, los_sd |-> 3, readmit_base |-> 15]) @@
    ("Fracture" :> [base_los |-> 2, los_sd |-> 1, readmit_base |-> 4]) @@
    ("Sepsis" :> [base_los |-> 10, los_sd |-> 7, readmit_base |-> 22]) @@
    ("Cancer" :> [base_los |-> 7, los_sd |-> 6, readmit_base |-> 14]) @@
    ("Other" :> [base_los |-> 3, los_sd |-> 2, readmit_base |-> 6])

\* list(DIAGNOSES.keys()): insertion order.
DIAGNOSES_keys ==
    <<"Hypertension", "Heart Failure", "Pneumonia", "Stroke", "Diabetes",
      "COPD", "Fracture", "Sepsis", "Cancer", "Other">>

GENDERS == <<"Male", "Female", "Other">>

SMOKING_STATUSES == <<"Never", "Former", "Current">>

ALCOHOL_USE == <<"None", "Moderate", "Heavy">>

INSURANCE_TYPES == <<"Private", "Public", "Self-Pay">>

MEDICATION_POOLS ==
    ("Hypertension" :> <<"ACE Inhibitors", "Beta Blockers",
                         "Calcium Channel Blockers", "Diuretics">>) @@
    ("Heart Failure" :> <<"ACE Inhibitors", "Beta Blockers", "Diuretics",
                          "Aldosterone Antagonists">>) @@
    ("Pneumonia" :> <<"Antibiotics", "Bronchodilators">>) @@
    ("Stroke" :> <<"Antiplatelets", "Anticoagulants", "Statins">>) @@
    ("Diabetes" :> <<"Insulin", "Metformin", "SGLT2 Inhibitors">>) @@
    ("COPD" :> <<"Bronchodilators", "Inhaled Steroids">>) @@
    ("Fracture" :> <<"Analgesics", "Opioids">>) @@
    ("Sepsis" :> <<"Antibiotics", "Vasopressors">>) @@
    ("Cancer" :> <<"Chemotherapy", "Analgesics">>) @@
    ("Other" :> <<"Analgesics", "Multivitamins">>)

-----------------------------------------------------------------------------
(* The random primitives, as functions of the draw they consume.           *)

\* random.gauss(mu, sigma) / np.random.normal(mu, sigma), in hundredths:
\* mu100 is mu in hundredths, sigma10 is sigma in tenths, z the deviate in
\* tenths.
Gauss(mu100, sigma10, z) == mu100 + sigma10 * z

\* random's _randbelow(n) from the raw bits r it consumes.
RandBelow(n, r) == r % n

\* random.randint(a, b) from the raw draw r.
RandInt(a, b, r) == a + RandBelow(b - a + 1, r)

\* random.choice(seq) from the raw draw r.
Choice(seq, r) == seq[1 + RandBelow(Len(seq), r)]

\* random.choices(population, weights=w)[0]: bisect of the cumulative
\* weights (in hundredths) at u; the index is capped at the last element.
RECURSIVE Bisect(_, _, _, _)
Bisect(w, u, i, acc) ==
    IF i >= Len(w) THEN Len(w)
    ELSE IF u < acc + w[i] THEN i
    ELSE Bisect(w, u, i + 1, acc + w[i])

Choices(population, w, u) == population[Bisect(w, u, 1, 0)]

\* random.sample(pool, k): k selections without replacement; js[i] is the
\* i-th randbelow result, an index into what is left of the pool, whose
\* chosen slot is then refilled with the last remaining element.
RECURSIVE Sample(_, _, _)
Sample(pool, k, js) ==
    IF k = 0 THEN <<>>
    ELSE LET n == Len(pool)
             j == 1 + RandBelow(n, Head(js))
             rest == [i \in 1..(n - 1) |-> IF i = j THEN pool[n] ELSE pool[i]]
         IN  <<pool[j]>> \o Sample(rest, k - 1, Tail(js))

\* "; ".join(meds): the entries with a separator between neighbours.
RECURSIVE Join(_)
Join(meds) ==
    IF Len(meds) <= 1 THEN meds
    ELSE <<Head(meds), "; ">> \o Join(Tail(meds))

\* The entries of a joined medication list (what a reader's split gives).
Entries(joined) == [i \in 1..((Len(joined) + 1) \div 2) |-> joined[2 * i - 1]]

-----------------------------------------------------------------------------
(* Variable generators (lines 102-206), each a function of its arguments,  *)
(* of np and of the draws it consumes.                                     *)

\* u: random.random(); z: the normal deviate (numpy); v: the raw randint
\* draw.
realistic_age(npv, u, z, v) ==
    IF u < 65
    THEN IF npv THEN Max(18, Min(100, IntTrunc(Gauss(7500, 80, z), 100)))
         ELSE RandInt(65, 95, v)
    ELSE IF npv THEN Max(18, Min(64, IntTrunc(Gauss(4500, 120, z), 100)))
         ELSE RandInt(18, 64, v)

\* The result is in tenths (rounded to one decimal).
realistic_bmi(npv, age, z) ==
    IF npv
    THEN IF age < 30 THEN RoundHalfEven(Clip(Gauss(2400, 35, z), 1500, 4000), 10)
         ELSE IF age < 60 THEN RoundHalfEven(Clip(Gauss(2800, 45, z), 1800, 4500), 10)
         ELSE RoundHalfEven(Clip(Gauss(2700, 40, z), 1800, 4200), 10)
    ELSE LET base == IF age < 30 THEN 24 ELSE (IF age < 60 THEN 28 ELSE 27)
         IN  RoundHalfEven(Min(Max(Gauss(base * 100, 40, z), 1500), 4500), 10)

\* zs: the five gauss deviates in call order (sys, dia, hypertensive shift,
\* sys drop, dia drop); u: the random.random() of line 134.  The result is
\* the text f"{sys}/{dia}" as its three parts.
realistic_bp(npv, age, diagnosis, zs, u) ==
    LET sys0 == IntTrunc(Gauss(12500, 120, zs[1]), 100)
        dia0 == IntTrunc(Gauss(7800, 80, zs[2]), 100)
        sys1 == IF diagnosis = "Hypertension" \/ age > 70
                THEN sys0 + Abs(IntTrunc(Gauss(1000, 80, zs[3]), 100))
                ELSE sys0
        hypo == diagnosis \in {"Sepsis", "Heart Failure"} /\ u < 30
        sys2 == IF hypo
                THEN Max(80, sys1 - IntTrunc(Gauss(3000, 100, zs[4]), 100))
                ELSE sys1
        dia2 == IF hypo
                THEN Max(40, dia0 - IntTrunc(Gauss(1500, 60, zs[5]), 100))
                ELSE dia0
        sys3 == IF npv THEN Clip(sys2, 70, 220) ELSE Max(70, Min(sys2, 220))
        dia3 == IF npv THEN Clip(dia2, 40, 130) ELSE Max(40, Min(dia2, 130))
    IN  <<sys3, "/", dia3>>

\* realistic_cholesterol without the upper clamp.
realistic_cholesterol_unclamped(age, z) ==
    LET base100 == 19000 + 10 * Max(age - 40, 0)
        val == IntTrunc(Gauss(base100, 350, z), 100)
    IN  Max(100, val)

realistic_cholesterol(age, z) ==
    LET base100 == 19000 + 10 * Max(age - 40, 0)
        val == IntTrunc(Gauss(base100, 350, z), 100)
    IN  Max(100, Min(val, 400))

\* The result is in tenths.
realistic_hba1c(diagnosis, z) ==
    IF diagnosis = "Diabetes"
    THEN RoundHalfEven(Max(560, Min(Gauss(850, 19, z), 1500)), 10)
    ELSE RoundHalfEven(Max(450, Min(Gauss(540, 4, z), 750)), 10)

\* select_medications drawing with random.choices(pool, k=k), that is with
\* replacement and without the cap at the pool's size.
select_medications_choices(diagnosis, u, js) ==
    LET pool == DictGet(MEDICATION_POOLS, diagnosis, MEDICATION_POOLS["Other"])
        k == Choices(<<1, 2, 3>>, <<60, 30, 10>>, u)
    IN  Join([i \in 1..k |-> Choice(pool, js[i])])

\* select_medications falling back to the first pool of the table.
select_medications_first_pool(diagnosis, u, js) ==
    LET pool == DictGet(MEDICATION_POOLS, diagnosis, MEDICATION_POOLS["Hypertension"])
        k == Choices(<<1, 2, 3>>, <<60, 30, 10>>, u)
        meds == Sample(pool, Min(k, Len(pool)), js)
    IN  Join(meds)

\* u: the random.choices draw for k; js: the randbelow results of sample.
select_medications(diagnosis, u, js) ==
    LET pool == DictGet(MEDICATION_POOLS, diagnosis, MEDICATION_POOLS["Other"])
        k == Choices(<<1, 2, 3>>, <<60, 30, 10>>, u)
        meds == Sample(pool, Min(k, Len(pool)), js)
    IN  Join(meds)

\* m: np.random.lognormal's multiplier exp(0.5 * deviate), in hundredths;
\* z: the gauss deviate (stdlib); uc: the raw random.choice draw; ut: the
\* random.random() of line 172; v: the raw randint draw.
length_of_stay_for(npv, diagnosis, age, m, z, uc, ut, v) ==
    LET params == DictGet(DIAGNOSES, diagnosis, DIAGNOSES["Other"])
        base == params.base_los
        los0 == IF npv
                THEN Max(1, RoundHalfEven(base * m, 100))
                ELSE Max(1, IntTrunc(Gauss(base * 100, params.los_sd * 10, z), 100))
        los1 == IF age >= 80 THEN los0 + Choice(<<0, 1, 2>>, uc) ELSE los0
    IN  IF ut < 2 THEN los1 + RandInt(5, 30, v) ELSE los1

\* p: np.random.poisson's result; us: the six random.random() draws.
\* u/100 < lam/1.5 is 3u < 20 * (10 * lam).
prior_admissions_for(npv, age, p, us) ==
    LET lam10 == IF age < 40 THEN 2 ELSE (IF age < 65 THEN 7 ELSE 16)
        val == IF npv THEN p
               ELSE Cardinality({i \in 1..6 : 3 * us[i] < 20 * lam10})
    IN  Min(val, 20)

smoking_for(age, u) ==
    IF age < 30 THEN Choices(SMOKING_STATUSES, <<60, 15, 25>>, u)
    ELSE IF age < 65 THEN Choices(SMOKING_STATUSES, <<50, 25, 25>>, u)
    ELSE Choices(SMOKING_STATUSES, <<60, 30, 10>>, u)

alcohol_for(age, u) == Choices(ALCOHOL_USE, <<35, 55, 10>>, u)

\* readmission_risk with the BMI term subtracted.
readmission_risk_bmi_sign(age, diagnosis, prior_adm, los, smoking, bmi) ==
    LET base == DictGet(DIAGNOSES, diagnosis, DIAGNOSES["Other"]).readmit_base
        p0 == base * 100
        p1 == p0 + Max(0, 10 * (age - 50))
        p2 == p1 + 300 * Min(prior_adm, 5)
        p3 == p2 - Max(0, 4 * (bmi - 250))
        p4 == p3 + (IF smoking = "Current" THEN 200 ELSE 0)
        p5 == p4 + (IF los > 7 THEN 100 ELSE 0)
    IN  Min(Max(p5, 100), 9000)

\* The result is in ten-thousandths; bmi is in tenths.
\*   0.01 * (age - 50) / 10 is 10 * (age - 50) ten-thousandths,
\*   0.02 * (bmi - 25) / 5 is 4 * (bmi10 - 250) ten-thousandths.
readmission_risk(age, diagnosis, prior_adm, los, smoking, bmi) ==
    LET base == DictGet(DIAGNOSES, diagnosis, DIAGNOSES["Other"]).readmit_base
        p0 == base * 100
        p1 == p0 + Max(0, 10 * (age - 50))
        p2 == p1 + 300 * Min(prior_adm, 5)
        p3 == p2 + Max(0, 4 * (bmi - 250))
        p4 == p3 + (IF smoking = "Current" THEN 200 ELSE 0)
        p5 == p4 + (IF los > 7 THEN 100 ELSE 0)
    IN  Min(Max(p5, 100), 9000)

-----------------------------------------------------------------------------
(* Record assembly (lines 210-271).                                        *)

SecondsPerDay == 24 * 60 * 60

\* strftime("%Y-%m-%d") of an instant: its day.
FormatDate(t) == t \div SecondsPerDay

\* strftime("%Y-%m-%d %H:%M:%S") of an instant: day and second of the day.
FormatTimestamp(t) == <<t \div SecondsPerDay, t % SecondsPerDay>>

\* admission_and_discharge_dates adding the hour jitter twice (the minutes
\* passed as hours).
admission_and_discharge_dates_hours(length_of_stay_days, now, z, um, uh, ui) ==
    LET days_back == IntTrunc(Abs(Gauss(20000, 1500, z)), 100)
        admission == now - days_back * SecondsPerDay + RandInt(0, 1440, um) * 60
        discharge == admission + length_of_stay_days * SecondsPerDay
                     + RandInt(0, 23, uh) * 3600 + RandInt(0, 59, ui) * 3600
    IN  <<FormatDate(admission), FormatDate(discharge)>>

\* now: datetime.now(); z: the gauss deviate of days_back; um: the raw draw
\* of randint(0, 1440); uh, ui: those of randint(0, 23), randint(0, 59).
admission_and_discharge_dates(length_of_stay_days, now, z, um, uh, ui) ==
    LET days_back == IntTrunc(Abs(Gauss(20000, 1500, z)), 100)
        admission == now - days_back * SecondsPerDay + RandInt(0, 1440, um) * 60
        discharge == admission + length_of_stay_days * SecondsPerDay
                     + RandInt(0, 23, uh) * 3600 + RandInt(0, 59, ui) * 60
    IN  <<FormatDate(admission), FormatDate(discharge)>>

-----------------------------------------------------------------------------
(* The generators' random sources.  random (Mersenne Twister) and          *)
(* np.random are deterministic generators: a state, a step, an output.     *)
(* They are modelled by a full-period linear congruential generator over   *)
(* RngModulus states; one step is taken per draw.                          *)

RngModulus == 2 ^ 11

RngStates == 0..(RngModulus - 1)

Lcg(x) == (1229 * x + 1013) % RngModulus

\* random.seed(n) / np.random.seed(n): the state is a function of n alone.
SeedState(n) == (157 * n + 71) % RngModulus

\* random.random() read off a generator output: u/100.
U(x) == (x * 100) \div RngModulus

\* Deviates (in tenths of a standard deviation) a gauss/normal draw takes.
ZTable == <<-80, -40, -25, -15, -10, -5, -2, 0, 0, 2, 5, 10, 15, 25, 40, 80>>

Z(x) == ZTable[1 + (x * Len(ZTable)) \div RngModulus]

\* exp(0.5 * deviate) in hundredths: np.random.lognormal's multiplier of
\* exp(mean) = base, at deviates -8, -4, -2, -1, 0, 0, 1, 2, 4, 8.
LogNormalTable == <<2, 14, 37, 61, 100, 100, 165, 272, 739, 5460>>

LogN(x) == LogNormalTable[1 + (x * Len(LogNormalTable)) \div RngModulus]

\* Counts an np.random.poisson draw takes.
PoissonTable == <<0, 0, 0, 1, 1, 2, 3, 5, 20, 21, 30>>

Poisson(x) == PoissonTable[1 + (x * Len(PoissonTable)) \div RngModulus]

\* The generators drawing from a source s = [py |-> random's state,
\* np |-> numpy's state]: each returns [val, s], the value and the source
\* after the draws the call consumed, in the order the code consumes them.

realistic_age_s(npv, s) ==
    LET a == Lcg(s.py)
        b == Lcg(a)
        c == Lcg(s.np)
    IN  [val |-> realistic_age(npv, U(a), Z(c), b),
         s |-> IF npv THEN [py |-> a, np |-> c] ELSE [py |-> b, np |-> s.np]]

choice_s(seq, s) ==
    LET a == Lcg(s.py) IN [val |-> Choice(seq, a), s |-> [s EXCEPT !.py = a]]

choices_s(population, w, s) ==
    LET a == Lcg(s.py)
    IN  [val |-> Choices(population, w, U(a)), s |-> [s EXCEPT !.py = a]]

length_of_stay_for_s(npv, diagnosis, age, s) ==
    LET g == IF npv THEN s.py ELSE Lcg(s.py)
        c == IF age >= 80 THEN Lcg(g) ELSE g
        t == Lcg(c)
        v == IF U(t) < 2 THEN Lcg(t) ELSE t
        n == IF npv THEN Lcg(s.np) ELSE s.np
    IN  [val |-> length_of_stay_for(npv, diagnosis, age, LogN(n), Z(g), c, U(t), v),
         s |-> [py |-> v, np |-> n]]

RECURSIVE LcgN(_, _)
LcgN(x, k) == IF k = 0 THEN x ELSE LcgN(Lcg(x), k - 1)

prior_admissions_for_s(npv, age, s) ==
    LET n == Lcg(s.np)
        us == [i \in 1..6 |-> U(LcgN(s.py, i))]
    IN  [val |-> prior_admissions_for(npv, age, Poisson(n), us),
         s |-> IF npv THEN [s EXCEPT !.np = n]
               ELSE [s EXCEPT !.py = LcgN(s.py, 6)]]

admission_and_discharge_dates_s(length_of_stay_days, now, s) ==
    LET g == Lcg(s.py)
        m == Lcg(g)
        h == Lcg(m)
        i == Lcg(h)
    IN  [val |-> admission_and_discharge_dates(length_of_stay_days, now, Z(g), m, h, i),
         s |-> [s EXCEPT !.py = i]]

realistic_bmi_s(npv, age, s) ==
    LET a == Lcg(s.py)
        c == Lcg(s.np)
    IN  [val |-> realistic_bmi(npv, age, IF npv THEN Z(c) ELSE Z(a)),
         s |-> IF npv THEN [s EXCEPT !.np = c] ELSE [s EXCEPT !.py = a]]

realistic_bp_s(npv, age, diagnosis, s) ==
    LET g1 == Lcg(s.py)
        g2 == Lcg(g1)
        g3 == IF diagnosis = "Hypertension" \/ age > 70 THEN Lcg(g2) ELSE g2
        u == IF diagnosis \in {"Sepsis", "Heart Failure"} THEN Lcg(g3) ELSE g3
        hypo == diagnosis \in {"Sepsis", "Heart Failure"} /\ U(u) < 30
        g4 == IF hypo THEN Lcg(u) ELSE u
        g5 == IF hypo THEN Lcg(g4) ELSE g4
    IN  [val |-> realistic_bp(npv, age, diagnosis,
                              <<Z(g1), Z(g2), Z(g3), Z(g4), Z(g5)>>, U(u)),
         s |-> [s EXCEPT !.py = g5]]

realistic_cholesterol_s(age, s) ==
    LET a == Lcg(s.py)
    IN  [val |-> realistic_cholesterol(age, Z(a)), s |-> [s EXCEPT !.py = a]]

realistic_hba1c_s(diagnosis, s) ==
    LET a == Lcg(s.py)
    IN  [val |-> realistic_hba1c(diagnosis, Z(a)), s |-> [s EXCEPT !.py = a]]

select_medications_s(diagnosis, s) ==
    LET pool == DictGet(MEDICATION_POOLS, diagnosis, MEDICATION_POOLS["Other"])
        a == Lcg(s.py)
        k == Min(Choices(<<1, 2, 3>>, <<60, 30, 10>>, U(a)), Len(pool))
    IN  [val |-> select_medications(diagnosis, U(a),
                                    [i \in 1..3 |-> LcgN(a, i)]),
         s |-> [s EXCEPT !.py = LcgN(a, k)]]

smoking_for_s(age, s) ==
    LET a == Lcg(s.py)
    IN  [val |-> smoking_for(age, U(a)), s |-> [s EXCEPT !.py = a]]

alcohol_for_s(age, s) ==
    LET a == Lcg(s.py)
    IN  [val |-> alcohol_for(age, U(a)), s |-> [s EXCEPT !.py = a]]

random_s(s) ==
    LET a == Lcg(s.py) IN [val |-> U(a), s |-> [s EXCEPT !.py = a]]

\* uuid.uuid4().hex[:8]: the first 8 of the 32 hex digits; a uuid is given
\* as <<those 8 digits, the other 24>>.
PatientIdOf(uuid) == uuid[1]

\* The age-band weight vectors of lines 223-228, in hundredths.
diag_weights(age) ==
    IF age >= 80 THEN <<15, 20, 5, 5, 8, 12, 5, 5, 10, 15>>
    ELSE IF age >= 65 THEN <<20, 18, 6, 7, 8, 10, 4, 5, 7, 15>>
    ELSE <<18, 8, 6, 3, 12, 5, 12, 4, 15, 17>>

\* The dict literal of lines 251-271 over the locals v of
\* generate_patient_record, without one of its keys.
RecordOf_without_HbA1c(v) ==
    [PatientID |-> v.patient_id,
     Age |-> v.age,
     Gender |-> v.gender,
     AdmissionDate |-> v.adm_date,
     DischargeDate |-> v.dis_date,
     Diagnosis |-> v.diagnosis,
     LengthOfStay |-> v.los,
     PriorAdmissions |-> v.prior_adm,
     Medications |-> v.meds,
     ReadmittedWithin30Days |-> v.readmitted,
     BMI |-> v.bmi,
     SmokingStatus |-> v.smoking,
     AlcoholUse |-> v.alcohol,
     BloodPressure |-> v.bp,
     CholesterolLevel |-> v.chol,
     FollowUpAppointmentScheduled |-> v.follow_up,
     InsuranceType |-> v.insurance,
     RecordGeneratedAt |-> v.generated_at]

\* The dict literal of lines 251-271 over the locals v of
\* generate_patient_record.
RecordOf(v) ==
    [PatientID |-> v.patient_id,
     Age |-> v.age,
     Gender |-> v.gender,
     AdmissionDate |-> v.adm_date,
     DischargeDate |-> v.dis_date,
     Diagnosis |-> v.diagnosis,
     LengthOfStay |-> v.los,
     PriorAdmissions |-> v.prior_adm,
     Medications |-> v.meds,
     ReadmittedWithin30Days |-> v.readmitted,
     BMI |-> v.bmi,
     SmokingStatus |-> v.smoking,
     AlcoholUse |-> v.alcohol,
     BloodPressure |-> v.bp,
     CholesterolLevel |-> v.chol,
     HbA1c |-> v.hba1c,
     FollowUpAppointmentScheduled |-> v.follow_up,
     InsuranceType |-> v.insurance,
     RecordGeneratedAt |-> v.generated_at]

\* The keys of that dict in insertion order, the order json.dumps writes.
RECORD_KEYS ==
    <<"PatientID", "Age", "Gender", "AdmissionDate", "DischargeDate",
      "Diagnosis", "LengthOfStay", "PriorAdmissions", "Medications",
      "ReadmittedWithin30Days", "BMI", "SmokingStatus", "AlcoholUse",
      "BloodPressure", "CholesterolLevel", "HbA1c",
      "FollowUpAppointmentScheduled", "InsuranceType", "RecordGeneratedAt">>

\* generate_patient_record(): s0 is the random source at entry, now1 the
\* clock read in admission_and_discharge_dates, now2 the clock read for
\* RecordGeneratedAt, uuid the uuid4 the OS entropy gives.  [rec, s].
generate_patient_record(npv, s0, now1, now2, uuid) ==
    LET age == realistic_age_s(npv, s0)
        gender == choice_s(GENDERS, age.s)
        diagnosis == choices_s(DIAGNOSES_keys, diag_weights(age.val), gender.s)
        los == length_of_stay_for_s(npv, diagnosis.val, age.val, diagnosis.s)
        prior_adm == prior_admissions_for_s(npv, age.val, los.s)
        dates == admission_and_discharge_dates_s(los.val, now1, prior_adm.s)
        bmi == realistic_bmi_s(npv, age.val, dates.s)
        smoking == smoking_for_s(age.val, bmi.s)
        alcohol == alcohol_for_s(age.val, smoking.s)
        bp == realistic_bp_s(npv, age.val, diagnosis.val, alcohol.s)
        chol == realistic_cholesterol_s(age.val, bp.s)
        hba1c == realistic_hba1c_s(diagnosis.val, chol.s)
        meds == select_medications_s(diagnosis.val, hba1c.s)
        fu == random_s(meds.s)
        follow_up == IF fu.val < 70 THEN 1 ELSE 0
        insurance == choices_s(INSURANCE_TYPES, <<50, 40, 10>>, fu.s)
        readmit_prob == readmission_risk(age.val, diagnosis.val, prior_adm.val,
                                         los.val, smoking.val, bmi.val)
        rd == random_s(insurance.s)
        readmitted == IF 100 * rd.val < readmit_prob THEN 1 ELSE 0
    IN  [rec |-> RecordOf(
           [patient_id |-> PatientIdOf(uuid),
            age |-> age.val,
            gender |-> gender.val,
            adm_date |-> dates.val[1],
            dis_date |-> dates.val[2],
            diagnosis |-> diagnosis.val,
            los |-> los.val,
            prior_adm |-> prior_adm.val,
            meds |-> meds.val,
            readmitted |-> readmitted,
            bmi |-> bmi.val,
            smoking |-> smoking.val,
            alcohol |-> alcohol.val,
            bp |-> bp.val,
            chol |-> chol.val,
            hba1c |-> hba1c.val,
            follow_up |-> follow_up,
            insurance |-> insurance.val,
            generated_at |-> FormatTimestamp(now2)]),
         s |-> rd.s]

-----------------------------------------------------------------------------
(* Direct calls of the generators: each action calls one function with     *)
(* inputs and draws taken from the sets below, which hold the ends of each *)
(* range, the thresholds the code tests and deviates far in both tails.    *)

MaxLos == 3

Ages == {18, 29, 30, 39, 40, 59, 60, 64, 65, 70, 71, 79, 80, 100}

RiskAges == {18, 50, 51, 100}

Diagnoses == Range(DIAGNOSES_keys) \cup {"Unlisted"}

ZSet == {-80, -10, 0, 10, 80}

ZEnds == {-80, 0, 80}

USet == {0, 1, 2, 29, 30, 59, 60, 64, 65, 89, 90, 99}

LogNormalSet == Range(LogNormalTable)

PoissonSet == Range(PoissonTable)

BMIs == {150, 250, 251, 255, 300, 450}

\* Instants the clock is read at: a day's first second, noon, last second.
Day0 == 20000 * SecondsPerDay

Nows == {Day0, Day0 + 12 * 3600, Day0 + SecondsPerDay - 1}

Uuids == {<<"0a1b2c3d", "x">>, <<"ffee0011", "y">>}

None == [fn |-> "None"]

\* Values of the variables a specification does not use.
IdleAppend == csv = [exists |-> FALSE, lines |-> <<>>] /\ calls = <<>>

IdleScript ==
    /\ ndjson = [exists |-> FALSE, lines |-> <<>>]
    /\ pc = "idle" /\ seed = <<>> /\ n_per_interval = 0
    /\ rng = 0 /\ nprng = 0 /\ clock = 0
    /\ batch = <<>> /\ wi = 0 /\ write_header = FALSE
    /\ total_written = 0 /\ reported = <<>> /\ hist = <<>> /\ slept = 0

IdleRuns == runs = <<>>

\* Each call is made on the freshly loaded module, one per behaviour, and
\* leaves the call with its result in ret.
notRet == <<np, csv, ndjson, calls, pc, seed, n_per_interval, rng, nprng,
            clock, batch, wi, write_header, total_written, reported,
            hist, slept, runs>>

Call_realistic_age ==
    /\ ret = None
    /\ \E u \in {0, 64, 65, 99}, z \in ZSet, v \in {0, 1, 30, 46} :
        ret' = [fn |-> "realistic_age", args |-> [u |-> u, z |-> z, v |-> v],
                 val |-> realistic_age(np, u, z, v)]
    /\ UNCHANGED notRet

Call_realistic_bmi ==
    /\ ret = None
    /\ \E age \in Ages, z \in ZSet \cup {-1, 1, 3, 5} :
        ret' = [fn |-> "realistic_bmi", args |-> [age |-> age, z |-> z],
                 val |-> realistic_bmi(np, age, z)]
    /\ UNCHANGED notRet

Call_realistic_bp ==
    /\ ret = None
    /\ \E age \in {18, 70, 71}, d \in {"Hypertension", "Sepsis", "Heart Failure", "Other"},
           zs \in [1..5 -> ZEnds], u \in {0, 29, 30} :
        ret' = [fn |-> "realistic_bp",
                 args |-> [age |-> age, diagnosis |-> d, zs |-> zs, u |-> u],
                 val |-> realistic_bp(np, age, d, zs, u)]
    /\ UNCHANGED notRet

Call_realistic_cholesterol ==
    /\ ret = None
    /\ \E age \in Ages, z \in ZSet :
        ret' = [fn |-> "realistic_cholesterol", args |-> [age |-> age, z |-> z],
                 val |-> realistic_cholesterol(age, z)]
    /\ UNCHANGED notRet

Call_realistic_hba1c ==
    /\ ret = None
    /\ \E d \in Diagnoses, z \in ZSet \cup {-1, 1, 3, 5} :
        ret' = [fn |-> "realistic_hba1c", args |-> [diagnosis |-> d, z |-> z],
                 val |-> realistic_hba1c(d, z)]
    /\ UNCHANGED notRet

Call_select_medications ==
    /\ ret = None
    /\ \E d \in Diagnoses, u \in USet, js \in [1..3 -> 0..3] :
        ret' = [fn |-> "select_medications",
                 args |-> [diagnosis |-> d, u |-> u, js |-> js],
                 val |-> select_medications(d, u, js)]
    /\ UNCHANGED notRet

\* With numpy the length comes from the lognormal draw m, without it from
\* the gauss draw z; the draw of the branch not taken is held at its centre.
Call_length_of_stay_for ==
    /\ ret = None
    /\ \E d \in Diagnoses, age \in {18, 79, 80, 100},
           m \in (IF np THEN LogNormalSet ELSE {100}), z \in (IF np THEN {0} ELSE ZSet),
           uc \in 0..2, ut \in {0, 1, 2, 99}, v \in {0, 25} :
        ret' = [fn |-> "length_of_stay_for",
                 args |-> [diagnosis |-> d, age |-> age, m |-> m, z |-> z,
                           uc |-> uc, ut |-> ut, v |-> v],
                 val |-> length_of_stay_for(np, d, age, m, z, uc, ut, v)]
    /\ UNCHANGED notRet

\* With numpy the count is the poisson draw p, without it the six uniform
\* draws us decide it; the draws of the branch not taken are held at 0.
Call_prior_admissions_for ==
    /\ ret = None
    /\ \E age \in {18, 39, 40, 64, 65, 100},
           p \in (IF np THEN PoissonSet ELSE {0}),
           us \in (IF np THEN {[i \in 1..6 |-> 0]} ELSE [1..6 -> {13, 14, 46, 47}]) :
        ret' = [fn |-> "prior_admissions_for",
                 args |-> [age |-> age, p |-> p, us |-> us],
                 val |-> prior_admissions_for(np, age, p, us)]
    /\ UNCHANGED notRet

Call_readmission_risk ==
    /\ ret = None
    /\ \E age \in RiskAges, d \in Diagnoses, prior_adm \in 0..20,
           los \in {7, 8}, smoking \in Range(SMOKING_STATUSES), bmi \in BMIs :
        ret' = [fn |-> "readmission_risk",
                 args |-> [age |-> age, diagnosis |-> d, prior_adm |-> prior_adm,
                           los |-> los, smoking |-> smoking, bmi |-> bmi],
                 val |-> readmission_risk(age, d, prior_adm, los, smoking, bmi)]
    /\ UNCHANGED notRet

Call_admission_and_discharge_dates ==
    /\ ret = None
    /\ \E los \in 1..MaxLos, now \in Nows, z \in ZEnds, um \in {0, 1, 720, 1439, 1440},
           uh \in {0, 1, 12, 23}, ui \in {0, 1, 59} :
        ret' = [fn |-> "admission_and_discharge_dates",
                 args |-> [los |-> los, now |-> now, z |-> z, um |-> um,
                           uh |-> uh, ui |-> ui],
                 val |-> admission_and_discharge_dates(los, now, z, um, uh, ui)]
    /\ UNCHANGED notRet

\* A record from a random source in any state (both generators in the
\* same state, as after seeding) at any of the instants.
Call_generate_patient_record ==
    /\ ret = None
    /\ \E x \in RngStates, now \in Nows, uuid \in Uuids :
        ret' = [fn |-> "generate_patient_record",
                 args |-> [s |-> x, now |-> now],
                 val |-> generate_patient_record(np, [py |-> x, np |-> x],
                                                 now, now, uuid).rec]
    /\ UNCHANGED notRet

InitUnit ==
    /\ np \in BOOLEAN
    /\ ret = None
    /\ IdleAppend /\ IdleScript /\ IdleRuns

NextUnit ==
    \/ Call_realistic_age
    \/ Call_realistic_bmi
    \/ Call_realistic_bp
    \/ Call_realistic_cholesterol
    \/ Call_realistic_hba1c
    \/ Call_select_medications
    \/ Call_length_of_stay_for
    \/ Call_prior_admissions_for
    \/ Call_readmission_risk
    \/ Call_admission_and_discharge_dates
    \/ Call_generate_patient_record

SpecUnit == InitUnit /\ [][NextUnit]_vars

-----------------------------------------------------------------------------
(* Claims about the generators and the assembled record (SpecUnit).        *)

IsRecord == ret.fn = "generate_patient_record"

IsCall(f) == ret.fn = f

\* C1 as stated: in every record, and for every direct call of
\* admission_and_discharge_dates with a length of stay >= 1, DischargeDate
\* is strictly later than AdmissionDate and the calendar days between the
\* two emitted dates equal LengthOfStay.
C1_DateGapIsLengthOfStay ==
    /\ IsCall("admission_and_discharge_dates") =>
         /\ ret.val[2] > ret.val[1]
         /\ ret.val[2] - ret.val[1] = ret.args.los
    /\ IsRecord =>
         /\ ret.val.DischargeDate > ret.val.AdmissionDate
         /\ ret.val.DischargeDate - ret.val.AdmissionDate = ret.val.LengthOfStay

\* C1 amended: DischargeDate is strictly later than AdmissionDate and the
\* calendar days between the two emitted dates are LengthOfStay or
\* LengthOfStay + 1 (the discharge jitter may carry past midnight).
C1_DateGapWithinOneDay ==
    /\ IsCall("admission_and_discharge_dates") =>
         /\ ret.val[2] > ret.val[1]
         /\ ret.val[2] - ret.val[1] \in {ret.args.los, ret.args.los + 1}
    /\ IsRecord =>
         /\ ret.val.DischargeDate > ret.val.AdmissionDate
         /\ ret.val.DischargeDate - ret.val.AdmissionDate
              \in {ret.val.LengthOfStay, ret.val.LengthOfStay + 1}

\* A record whose discharge jitter carried past midnight.
C1_Witness ==
    /\ IsRecord
    /\ ret.val.DischargeDate - ret.val.AdmissionDate = ret.val.LengthOfStay + 1

\* The HbA1c range of a diagnosis, in tenths.
HbA1cBounds(diagnosis) == IF diagnosis = "Diabetes" THEN 56..150 ELSE 45..75

\* C3: every clamped numeric field is within its bound, in the value each
\* generator returns and in every assembled record, with numpy or without:
\* Age 18..100, BMI 15..45, cholesterol 100..400, HbA1c 5.6..15 for
\* Diabetes and 4.5..7.5 otherwise, systolic 70..220, diastolic 40..130,
\* prior admissions 0..20, length of stay >= 1.
C3_FieldsWithinBounds ==
    /\ IsCall("realistic_age") => ret.val \in 18..100
    /\ IsCall("realistic_bmi") => ret.val \in 150..450
    /\ IsCall("realistic_cholesterol") => ret.val \in 100..400
    /\ IsCall("realistic_hba1c") => ret.val \in HbA1cBounds(ret.args.diagnosis)
    /\ IsCall("realistic_bp") => ret.val[1] \in 70..220 /\ ret.val[3] \in 40..130
    /\ IsCall("prior_admissions_for") => ret.val \in 0..20
    /\ IsCall("length_of_stay_for") => ret.val >= 1
    /\ IsRecord =>
         /\ ret.val.Age \in 18..100
         /\ ret.val.BMI \in 150..450
         /\ ret.val.CholesterolLevel \in 100..400
         /\ ret.val.HbA1c \in HbA1cBounds(ret.val.Diagnosis)
         /\ ret.val.BloodPressure[1] \in 70..220
         /\ ret.val.BloodPressure[3] \in 40..130
         /\ ret.val.PriorAdmissions \in 0..20
         /\ ret.val.LengthOfStay >= 1

\* A cholesterol draw eight deviations up, held at the upper bound.
C3_Witness ==
    /\ IsCall("realistic_cholesterol")
    /\ ret.args.z = 80
    /\ ret.val = 400

\* C4: readmission_risk is within [0.01, 0.9] on every valid input, and,
\* the other inputs fixed, does not decrease when prior admissions
\* increase nor when BMI increases.
C4_RiskBoundedAndMonotone ==
    IsCall("readmission_risk") =>
        LET a == ret.args
        IN  /\ ret.val \in 100..9000
            /\ \A q \in 0..20 :
                 q >= a.prior_adm =>
                   readmission_risk(a.age, a.diagnosis, q, a.los, a.smoking, a.bmi)
                     >= ret.val
            /\ \A b \in 150..450 :
                 b >= a.bmi =>
                   readmission_risk(a.age, a.diagnosis, a.prior_adm, a.los,
                                    a.smoking, b) >= ret.val

\* A call below the prior-admission cap and above BMI 25, where both terms
\* count.
C4_Witness ==
    /\ IsCall("readmission_risk")
    /\ ret.args.prior_adm = 3
    /\ ret.args.bmi = 300
    /\ ret.val > readmission_risk(ret.args.age, ret.args.diagnosis, 2,
                                  ret.args.los, ret.args.smoking, 250)

\* The pool a diagnosis is to draw from.
PoolOf(diagnosis) ==
    IF diagnosis \in DOMAIN MEDICATION_POOLS
    THEN Range(MEDICATION_POOLS[diagnosis])
    ELSE Range(MEDICATION_POOLS["Other"])

\* Between 1 and 3 entries, all of the pool, none twice.
WellChosen(joined, diagnosis) ==
    LET e == Entries(joined)
    IN  /\ Len(e) \in 1..3
        /\ \A i \in 1..Len(e) : e[i] \in PoolOf(diagnosis)
        /\ \A i, j \in 1..Len(e) : i # j => e[i] # e[j]
        /\ joined = Join(e)

\* C5: select_medications returns 1 to 3 medications, each from the pool
\* of the diagnosis (the "Other" pool for an unmapped diagnosis), none
\* twice; likewise the Medications of every record.
C5_MedicationsFromPool ==
    /\ IsCall("select_medications") => WellChosen(ret.val, ret.args.diagnosis)
    /\ IsRecord => WellChosen(ret.val.Medications, ret.val.Diagnosis)

\* Three were asked for from a pool of two.
C5_Witness ==
    /\ IsCall("select_medications")
    /\ ret.args.u >= 90
    /\ ret.args.diagnosis = "Pneumonia"
    /\ Len(Entries(ret.val)) = 2

\* C8: for a diagnosis that is in neither table, length_of_stay_for,
\* readmission_risk and select_medications return what they return for
\* "Other" on the same other arguments and draws.
C8_UnlistedBehavesAsOther ==
    LET a == ret.args
    IN  /\ (IsCall("length_of_stay_for") /\ a.diagnosis \notin DOMAIN DIAGNOSES) =>
             ret.val = length_of_stay_for(np, "Other", a.age, a.m, a.z, a.uc, a.ut, a.v)
        /\ (IsCall("readmission_risk") /\ a.diagnosis \notin DOMAIN DIAGNOSES) =>
             ret.val = readmission_risk(a.age, "Other", a.prior_adm, a.los,
                                        a.smoking, a.bmi)
        /\ (IsCall("select_medications")
              /\ a.diagnosis \notin DOMAIN MEDICATION_POOLS) =>
             ret.val = select_medications("Other", a.u, a.js)

\* A call of select_medications with an unlisted diagnosis.
C8_Witness ==
    /\ IsCall("select_medications")
    /\ ret.args.diagnosis = "Unlisted"
    /\ Len(Entries(ret.val)) = 2

-----------------------------------------------------------------------------
(* The append writers (lines 274-288).  A file is whether it exists and    *)
(* its lines; a CSV line is the header or a row of cells by column index;  *)
(* an NDJSON line is the object's key-value pairs in order.                *)

MissingFile == [exists |-> FALSE, lines |-> <<>>]

EmptyFile == [exists |-> TRUE, lines |-> <<>>]

\* Line 276 with the size test left out.
WriteHeader_missing_only(file) == ~file.exists

\* Line 276: not os.path.exists(path) or os.path.getsize(path) == 0.
WriteHeader(file) == ~file.exists \/ Len(file.lines) = 0

\* writer.writeheader(): the field names.
HeaderLine == [kind |-> "header", cells |-> COLUMNS]

\* DictWriter.writerow raises ValueError on a key that is no field name.
RowRejected(r) == DOMAIN r \ Range(COLUMNS) # {}

\* DictWriter.writerow: a cell per column the record has a value for (a
\* column it has none for is left to restval, an empty cell).
CsvRow(r) ==
    [kind |-> "row",
     cells |-> [i \in {j \in 1..Len(COLUMNS) : COLUMNS[j] \in DOMAIN r}
                  |-> r[COLUMNS[i]]]]

\* json.dumps(r, default=str): the pairs in the dict's insertion order.
JsonDumps(r) ==
    LET keys == SelectSeq(RECORD_KEYS, LAMBDA k : k \in DOMAIN r)
    IN  [i \in 1..Len(keys) |-> <<keys[i], r[keys[i]]>>]

\* The writerow loop: it stops at the row that raises.
RECURSIVE WriteRows(_, _)
WriteRows(lines, rows) ==
    IF rows = <<>> THEN lines
    ELSE IF RowRejected(Head(rows)) THEN lines
    ELSE WriteRows(Append(lines, CsvRow(Head(rows))), Tail(rows))

\* append_to_csv(rows, csv_path) run to its end: the file afterwards.
append_to_csv(rows, file) ==
    LET write == WriteHeader(file)
        opened == IF write THEN Append(file.lines, HeaderLine) ELSE file.lines
    IN  [exists |-> TRUE, lines |-> WriteRows(opened, rows)]

\* append_to_ndjson(rows, json_path) run to its end: the file afterwards.
append_to_ndjson(rows, file) ==
    [exists |-> TRUE,
     lines |-> file.lines \o [i \in 1..Len(rows) |-> JsonDumps(rows[i])]]

-----------------------------------------------------------------------------
(* SpecAppend: sequences of complete append_to_csv calls on one path.      *)

MaxCalls == 3

MaxRows == 2

\* Records to append: two records the assembler produces.
SampleRecords ==
    {generate_patient_record(FALSE, [py |-> x, np |-> x], Day0, Day0,
                             <<"0a1b2c3d", "x">>).rec : x \in {1, 2}}

Batches == UNION {[1..k -> SampleRecords] : k \in 0..MaxRows}

Call_append_to_csv ==
    /\ Len(calls) < MaxCalls
    /\ \E rows \in Batches :
         /\ csv' = append_to_csv(rows, csv)
         /\ calls' = Append(calls, rows)
    /\ UNCHANGED <<np, ret, ndjson, pc, seed, n_per_interval, rng, nprng, clock,
                   batch, wi, write_header, total_written, reported, hist,
                   slept, runs>>

InitAppend ==
    /\ np = FALSE
    /\ ret = None
    /\ csv \in {MissingFile, EmptyFile}
    /\ calls = <<>>
    /\ IdleScript /\ IdleRuns

NextAppend == Call_append_to_csv

SpecAppend == InitAppend /\ [][NextAppend]_vars

\* C6: after any sequence of append_to_csv calls on a path that was missing
\* or empty, the file is the header line, once and first, followed by one
\* row per appended record in append order.
C6_HeaderOnceThenRows ==
    Len(calls) >= 1 =>
        LET recs == Flatten(calls)
        IN  /\ csv.exists
            /\ Len(csv.lines) = 1 + Len(recs)
            /\ csv.lines[1].kind = "header"
            /\ csv.lines[1] = HeaderLine
            /\ \A i \in 1..Len(recs) :
                 /\ csv.lines[i + 1].kind = "row"
                 /\ csv.lines[i + 1] = CsvRow(recs[i])

\* An empty batch went first, onto an existing empty file, and rows
\* followed in two later calls.
C6_Witness ==
    /\ Len(calls) = 3
    /\ calls[1] = <<>>
    /\ Len(calls[2]) = 1 /\ Len(calls[3]) = 2
    /\ Len(csv.lines) = 4

-----------------------------------------------------------------------------
(* Spec: the script, main() then run_loop() (lines 291-331), one step per  *)
(* statement a keyboard interrupt can fall between.                        *)

MaxSeed == 1

MaxN == 2

MaxBatches == 2

\* interval_seconds, in the 0.5 s slices of the sleep loop (the default).
IntervalSlices == 4

\* States the unseeded generators can start in (entropy from the system).
EntropyStates == {5, 1000}

Seeds == 0..MaxSeed

scriptConst == <<np, ret, calls, seed, n_per_interval, runs>>

\* Lines 325-329: with --seed, random is seeded, and numpy when present
\* (Faker too, which no generator draws from); s is the source before.
SeedGenerators(npv, sd, s) ==
    IF sd = <<>> THEN s
    ELSE [py |-> SeedState(sd[1]),
          np |-> IF npv THEN SeedState(sd[1]) ELSE s.np]

\* main(), lines 324-331: seed the generators when --seed is given, then
\* enter run_loop (total_written = 0, the banner is printed).
Main ==
    /\ pc = "main"
    /\ rng' = SeedGenerators(np, seed, [py |-> rng, np |-> nprng]).py
    /\ nprng' = SeedGenerators(np, seed, [py |-> rng, np |-> nprng]).np
    /\ total_written' = 0
    /\ batch' = <<>>
    /\ pc' = "generate"
    /\ UNCHANGED <<csv, ndjson, clock, wi, write_header, reported, hist, slept>>
    /\ UNCHANGED scriptConst

\* Line 300: the list comprehension, one generate_patient_record() per
\* step; complete, the list is bound to batch.
Generate ==
    /\ pc = "generate"
    /\ IF Len(batch) < n_per_interval
       THEN \E uuid \in Uuids :
              LET g == generate_patient_record(np, [py |-> rng, np |-> nprng],
                                               clock, clock, uuid)
              IN  /\ batch' = Append(batch, g.rec)
                  /\ rng' = g.s.py
                  /\ nprng' = g.s.np
                  /\ UNCHANGED <<pc, hist>>
       ELSE /\ hist' = Append(hist, batch)
            /\ pc' = "csv_stat"
            /\ UNCHANGED <<batch, rng, nprng>>
    /\ UNCHANGED <<csv, ndjson, clock, wi, write_header, total_written,
                   reported, slept>>
    /\ UNCHANGED scriptConst

\* Line 276.
CsvStat ==
    /\ pc = "csv_stat"
    /\ write_header' = WriteHeader(csv)
    /\ pc' = "csv_open"
    /\ UNCHANGED <<csv, ndjson, rng, nprng, clock, batch, wi, total_written,
                   reported, hist, slept>>
    /\ UNCHANGED scriptConst

\* Lines 277-280: open for append (creating the file) and the header.
CsvOpen ==
    /\ pc = "csv_open"
    /\ csv' = [exists |-> TRUE,
               lines |-> IF write_header THEN Append(csv.lines, HeaderLine)
                         ELSE csv.lines]
    /\ wi' = 0
    /\ pc' = "csv_rows"
    /\ UNCHANGED <<ndjson, rng, nprng, clock, batch, write_header,
                   total_written, reported, hist, slept>>
    /\ UNCHANGED scriptConst

\* Lines 281-282: one writerow per step; a ValueError leaves run_loop (it
\* is no KeyboardInterrupt); after the last row the file is closed.
CsvRows ==
    /\ pc = "csv_rows"
    /\ IF wi < Len(batch)
       THEN IF RowRejected(batch[wi + 1])
            THEN pc' = "crashed" /\ UNCHANGED <<csv, wi>>
            ELSE /\ csv' = [csv EXCEPT !.lines = Append(@, CsvRow(batch[wi + 1]))]
                 /\ wi' = wi + 1
                 /\ UNCHANGED pc
       ELSE pc' = "nd_open" /\ UNCHANGED <<csv, wi>>
    /\ UNCHANGED <<ndjson, rng, nprng, clock, batch, write_header,
                   total_written, reported, hist, slept>>
    /\ UNCHANGED scriptConst

\* Line 286.
NdOpen ==
    /\ pc = "nd_open"
    /\ ndjson' = [ndjson EXCEPT !.exists = TRUE]
    /\ wi' = 0
    /\ pc' = "nd_rows"
    /\ UNCHANGED <<csv, rng, nprng, clock, batch, write_header, total_written,
                   reported, hist, slept>>
    /\ UNCHANGED scriptConst

\* Lines 287-288: one line per step; then the file is closed.
NdRows ==
    /\ pc = "nd_rows"
    /\ IF wi < Len(batch)
       THEN /\ ndjson' = [ndjson EXCEPT !.lines = Append(@, JsonDumps(batch[wi + 1]))]
            /\ wi' = wi + 1
            /\ UNCHANGED pc
       ELSE pc' = "count" /\ UNCHANGED <<ndjson, wi>>
    /\ UNCHANGED <<csv, rng, nprng, clock, batch, write_header, total_written,
                   reported, hist, slept>>
    /\ UNCHANGED scriptConst

\* Line 303.
Count ==
    /\ pc = "count"
    /\ total_written' = total_written + Len(batch)
    /\ pc' = "print"
    /\ UNCHANGED <<csv, ndjson, rng, nprng, clock, batch, wi, write_header,
                   reported, hist, slept>>
    /\ UNCHANGED scriptConst

\* Line 304: the progress line; line 306.
PrintProgress ==
    /\ pc = "print"
    /\ reported' = Append(reported, [line |-> "progress", appended |-> Len(batch),
                                     total |-> total_written])
    /\ slept' = 0
    /\ pc' = "sleep"
    /\ UNCHANGED <<csv, ndjson, rng, nprng, clock, batch, wi, write_header,
                   total_written, hist>>
    /\ UNCHANGED scriptConst

\* Lines 307-309: sleep in slices of half a second, then the next batch
\* (the model stops at MaxBatches batches).
Sleep ==
    /\ pc = "sleep"
    /\ IF slept < IntervalSlices
       THEN /\ slept' = slept + 1
            /\ clock' = clock + (IF slept % 2 = 1 THEN 1 ELSE 0)
            /\ UNCHANGED <<pc, batch>>
       ELSE /\ Len(hist) < MaxBatches
            /\ pc' = "generate"
            /\ batch' = <<>>
            /\ UNCHANGED <<slept, clock>>
    /\ UNCHANGED <<csv, ndjson, rng, nprng, wi, write_header, total_written,
                   reported, hist>>
    /\ UNCHANGED scriptConst

\* Lines 310-313: Ctrl+C anywhere inside the try block; the with blocks
\* close the file being written, the final message is printed, sys.exit(0).
KeyboardInterrupt ==
    /\ pc \in {"generate", "csv_stat", "csv_open", "csv_rows", "nd_open",
               "nd_rows", "count", "print", "sleep"}
    /\ reported' = Append(reported, [line |-> "final", appended |-> 0,
                                     total |-> total_written])
    /\ pc' = "exited"
    /\ UNCHANGED <<csv, ndjson, rng, nprng, clock, batch, wi, write_header,
                   total_written, hist, slept>>
    /\ UNCHANGED scriptConst

Init ==
    /\ np \in BOOLEAN
    /\ ret = None
    /\ calls = <<>>
    /\ IdleRuns
    /\ csv \in {MissingFile, EmptyFile}
    /\ ndjson = MissingFile
    /\ pc = "main"
    /\ seed \in {<<>>} \cup {<<n>> : n \in Seeds}
    /\ n_per_interval \in 0..MaxN
    /\ rng \in EntropyStates
    /\ nprng \in EntropyStates
    /\ clock = Day0 + 12 * 3600
    /\ batch = <<>> /\ wi = 0 /\ write_header = FALSE
    /\ total_written = 0 /\ reported = <<>> /\ hist = <<>> /\ slept = 0

Next ==
    \/ Main
    \/ Generate
    \/ CsvStat
    \/ CsvOpen
    \/ CsvRows
    \/ NdOpen
    \/ NdRows
    \/ Count
    \/ PrintProgress
    \/ Sleep
    \/ KeyboardInterrupt

Spec == Init /\ [][Next]_vars

\* The records this run has put into each file, read back from its lines.
CsvRowLines == SelectSeq(csv.lines, LAMBDA l : l.kind = "row")

RowsOf(recs) == [i \in 1..Len(recs) |-> CsvRow(recs[i])]

JsonOf(recs) == [i \in 1..Len(recs) |-> JsonDumps(recs[i])]

\* The first k batches generated, as one list of records.
FirstBatches(k) == Flatten(SubSeq(hist, 1, k))

\* C7 as stated: when the script has exited on a keyboard interrupt, each
\* output file holds complete batches only: the rows in the CSV file are
\* those of the first k batches for some k, and so are the lines of the
\* NDJSON file.
C7_OnlyCompleteBatchesAtExit ==
    pc = "exited" =>
        /\ \E k \in 0..Len(hist) : CsvRowLines = RowsOf(FirstBatches(k))
        /\ \E k \in 0..Len(hist) : ndjson.lines = JsonOf(FirstBatches(k))

\* C9: every record generate_patient_record returns has exactly the keys
\* of COLUMNS, so the row writer never rejects a record and every row it
\* writes has a cell for every column.
C9_RecordKeysAreColumns ==
    /\ \A i \in 1..Len(batch) : DOMAIN batch[i] = Range(COLUMNS)
    /\ pc # "crashed"
    /\ \A i \in 1..Len(csv.lines) :
         csv.lines[i].kind = "row" =>
           DOMAIN csv.lines[i].cells = 1..Len(COLUMNS)

\* Two batches of two records were written to the CSV file.
C9_Witness ==
    /\ Len(hist) = 2
    /\ pc = "sleep"
    /\ Len(batch) = 2
    /\ Len(CsvRowLines) = 4

\* C10 as stated: whenever a total has just been reported (a progress line,
\* or the final message after an interrupt), it equals the number of
\* records this run has appended to the CSV file and to the NDJSON file,
\* and both files hold the same records in the same order.
C10_ReportedTotalMatchesFiles ==
    (pc \in {"sleep", "exited"} /\ reported # <<>>) =>
        LET total == reported[Len(reported)].total
        IN  /\ total = Len(CsvRowLines)
            /\ total = Len(ndjson.lines)
            /\ \E k \in 0..Len(hist) :
                 /\ CsvRowLines = RowsOf(FirstBatches(k))
                 /\ ndjson.lines = JsonOf(FirstBatches(k))

-----------------------------------------------------------------------------
(* SpecSeed: two runs of the script with the same --seed, each calling     *)
(* generate_patient_record up to MaxRecords times.  A run has its own      *)
(* process: its generators, the clock it reads and the uuids the system    *)
(* hands it.                                                               *)

MaxRecords == 2

\* Instants a run may start at: one noon, and the next day.
StartClocks == {Day0 + 12 * 3600, Day0 + SecondsPerDay + 12 * 3600 + 5}

RunInits ==
    {[pc |-> "main", rng |-> e, nprng |-> e, clock |-> c, recs |-> <<>>] :
        e \in EntropyStates, c \in StartClocks}

notRuns == <<np, ret, csv, ndjson, calls, pc, seed, n_per_interval, rng, nprng,
             clock, batch, wi, write_header, total_written, reported, hist,
             slept>>

\* main() of run r: lines 324-331.
RunMain(r) ==
    /\ runs[r].pc = "main"
    /\ LET s == SeedGenerators(np, seed, [py |-> runs[r].rng, np |-> runs[r].nprng])
       IN  runs' = [runs EXCEPT ![r].pc = "loop", ![r].rng = s.py, ![r].nprng = s.np]
    /\ UNCHANGED notRuns

\* One generate_patient_record() call of run r (line 300), the clock
\* having advanced by d seconds since the run last read it.
RunGenerate(r) ==
    /\ runs[r].pc = "loop"
    /\ Len(runs[r].recs) < MaxRecords
    /\ \E uuid \in Uuids, d \in {0, 1} :
         LET now == runs[r].clock + d
             g == generate_patient_record(np, [py |-> runs[r].rng,
                                               np |-> runs[r].nprng],
                                          now, now, uuid)
         IN  runs' = [runs EXCEPT ![r].recs = Append(@, g.rec),
                                  ![r].rng = g.s.py,
                                  ![r].nprng = g.s.np,
                                  ![r].clock = now]
    /\ UNCHANGED notRuns

InitSeed ==
    /\ np \in BOOLEAN
    /\ ret = None
    /\ IdleAppend
    /\ ndjson = [exists |-> FALSE, lines |-> <<>>]
    /\ pc = "idle" /\ n_per_interval = 0
    /\ rng = 0 /\ nprng = 0 /\ clock = 0
    /\ batch = <<>> /\ wi = 0 /\ write_header = FALSE
    /\ total_written = 0 /\ reported = <<>> /\ hist = <<>> /\ slept = 0
    /\ seed \in {<<n>> : n \in Seeds}
    /\ runs \in [1..2 -> RunInits]

NextSeed == \E r \in 1..2 : RunMain(r) \/ RunGenerate(r)

SpecSeed == InitSeed /\ [][NextSeed]_vars

\* C2 as stated: two runs started with the same --seed that have called
\* generate_patient_record the same number of times have produced the same
\* sequence of records, field for field.
C2_SameSeedSameRecords ==
    (/\ runs[1].pc = "loop" /\ runs[2].pc = "loop"
     /\ Len(runs[1].recs) = Len(runs[2].recs)) =>
        runs[1].recs = runs[2].recs

====
